---- MODULE Spec2Model ----
(***************************************************************************)
(* A model of usr/share/system-installer/auto_partitioner.py: the          *)
(* partition() decision tree, the geometry helpers it calls and            *)
(* make_raid_array().                                                      *)
(*                                                                         *)
(* Numbers. The planner mixes bytes, kilobytes, megabytes and sectors, and *)
(* several of the values it handles exceed 2^31. A natural number is       *)
(* therefore a record [m, u] standing for m * 10^6 + u with 0 <= u < 10^6. *)
(* Device lengths are drawn so that every float the source computes from   *)
(* them is a whole number; the operators below are then exact.             *)
(*                                                                         *)
(* Python values. None is <<"None">>; a str is the sequence of its         *)
(* characters; raid_type is <<"none">>, <<"str", s>> or <<"int", n>>.      *)
(*                                                                         *)
(* The block-device service (pyparted) and the formatting tools are        *)
(* outside the repository: the model records every call made to them in    *)
(* log and lets each call succeed, except mkfs.btrfs whose exit status is  *)
(* chosen freely, and mkfs and mkfs.fat whose outcome is one of those the  *)
(* machine allows (session.formatter).                                     *)
(*                                                                         *)
(* Specifications. Spec is one call of partition() under the config of     *)
(* lines 49-53; SpecConfig lets settings.json give the config; SpecTwice   *)
(* lets the caller call partition() a second time; SpecRaid calls          *)
(* make_raid_array on its own; SpecFormat lets mkfs and mkfs.fat fail and  *)
(* print bytes that are not UTF-8; SpecMinRoot calls get_min_root_size on  *)
(* its own.                                                                *)
(***************************************************************************)
EXTENDS Integers, Sequences, FiniteSets, TLC

\* ------------------------------------------------------------ big naturals

\* 1000 ** 2, the bytes-per-megabyte factor of sectors_to_size
Million == 1000000

Norm(m, u) == [m |-> m + (u \div Million), u |-> u % Million]

BigOf(n) == Norm(0, n)

BAdd(a, b) == Norm(a.m + b.m, a.u + b.u)

\* a - b, for b <= a
BSub(a, b) ==
    IF a.u >= b.u THEN [m |-> a.m - b.m, u |-> a.u - b.u]
    ELSE [m |-> a.m - b.m - 1, u |-> a.u + Million - b.u]

BLt(a, b) == a.m < b.m \/ (a.m = b.m /\ a.u < b.u)

BLe(a, b) == ~BLt(b, a)

\* a * k for 0 <= k <= 2000
BMulSmall(a, k) == Norm(a.m * k, a.u * k)

\* a * k for 0 <= k < 2000000
BMul(a, k) ==
    BAdd(BMulSmall(BMulSmall(a, k \div 1000), 1000), BMulSmall(a, k % 1000))

\* floor(a / k) for 1 <= k <= 2000
BDivSmall(a, k) ==
    [m |-> a.m \div k, u |-> (((a.m % k) * Million) + a.u) \div k]

\* a is a multiple of k, 1 <= k <= 2000
BDivides(k, a) == (((a.m % k) * Million) + a.u) % k = 0

\* floor(a / 10^6)
BDivMillion(a) == BigOf(a.m)

\* a * 10^6, for a < 2^31
BTimesMillion(a) == [m |-> a.m * Million + a.u, u |-> 0]

\* ceil(a / k) for 1 <= k <= 2000
BCeilDivSmall(a, k) ==
    IF BDivides(k, a) THEN BDivSmall(a, k) ELSE BAdd(BDivSmall(a, k), BigOf(1))

\* --------------------------------------------------------- python values

None == <<"None">>

MAKE == <<"M", "A", "K", "E">>

NULL == <<"N", "U", "L", "L">>

null == <<"n", "u", "l", "l">>

\* "nvme" in s
HasNvme(s) ==
    \E i \in 1..(Len(s) - 3) : SubSeq(s, i, i + 3) = <<"n", "v", "m", "e">>

\* s[:-k]
DropLast(s, k) == SubSeq(s, 1, Len(s) - k)

\* str.lower() on the raid type names the installer passes
Lower(s) ==
    CASE s = "RAID0" -> "raid0"
      [] s = "RAID1" -> "raid1"
      [] s = "RAID5" -> "raid5"
      [] s = "RAID6" -> "raid6"
      [] s = "RAID10" -> "raid10"
      [] s = "Raid1" -> "raid1"
      [] OTHER -> s

NoRaid == <<"none">>

\* ------------------------------------------------- conversions and config

gb_to_bytes(gb) == [m |-> gb * 1000, u |-> 0]

LimiterGB == 32

LIMITER == gb_to_bytes(LimiterGB)

\* config["EFI"], config["ROOT"], config["HOME"]: a boundary is a number of
\* megabytes or a percentage string, here [pct |-> n] for "n%"
Pct(n) == [pct |-> n]

IsPct(x) == "pct" \in DOMAIN x

EfiStart == 0

EfiEnd == 200

RootStart == 201

RootEndPct == 40

HomeStartPct == 40

HomeEndPct == 100

MinRootSize == 23000

Mdswh == 128

\* 1024 ** 3
GiB == 1073741824

sectors_to_size(sectors, sector_size) ==
    BDivMillion(BMul(sectors, sector_size))

RECURSIVE Gcd(_, _)
Gcd(a, b) == IF b = 0 THEN a ELSE Gcd(b, a % b)

\* parted.sizeToSectors(n, "MB", sector_size): ceil(n * 10^6 / sector_size)
sizeToSectors(n, sector_size) ==
    LET g == Gcd(Million, sector_size)
    IN BCeilDivSmall(BMul(n, Million \div g), sector_size \div g)

\* the r with r * r = g (g a perfect square)
ISqrt(g) == CHOOSE r \in 0..g : r * r = g

\* as get_min_root_size, without the square-root term of line 129
get_min_root_size_NoSqrt(swap, memGiB) ==
    LET swap_amount == IF swap
                       THEN BMulSmall(BigOf(GiB), memGiB)
                       ELSE BigOf(0)
    IN BAdd(swap_amount, BTimesMillion(BigOf(MinRootSize)))

\* get_min_root_size(swap, ram_size): bytes. mem is memGiB * 1024^3 bytes
\* with memGiB a perfect square, so that
\* round(mem + ((mem / 1024 ** 3) ** 0.5) * 1024 ** 3) is exact.
get_min_root_size(swap, memGiB) ==
    LET swap_amount == IF swap
                       THEN BMulSmall(BigOf(GiB), memGiB + ISqrt(memGiB))
                       ELSE BigOf(0)
    IN BAdd(swap_amount, BTimesMillion(BigOf(MinRootSize)))

\* the config of lines 49-53: the START and END of each partition
DefaultConfig ==
    [ROOT |-> [START |-> BigOf(RootStart), END |-> Pct(RootEndPct)],
     HOME |-> [START |-> Pct(HomeStartPct), END |-> Pct(HomeEndPct)],
     EFI |-> [START |-> BigOf(EfiStart), END |-> BigOf(EfiEnd)]]

\* a string that ends in "%" and whose head is not a number, e.g. "4o%"
BadPct == [badpct |-> TRUE]

IsBadPct(x) == "badpct" \in DOMAIN x

\* configs that settings.json can give: lines 54-72 take ROOT, HOME and EFI
\* from the file as they are
Configs ==
    {DefaultConfig,
     [DefaultConfig EXCEPT !.ROOT.START = BadPct],
     [DefaultConfig EXCEPT !.ROOT.END = BadPct],
     [DefaultConfig EXCEPT !.HOME.END = BadPct]}

\* ------------------------------------------------------------------ inputs

\* number of member slots ("1", "2", ...) in raid_array["disks"]
MaxSlots == 4

\* RAM sizes read from psutil are k * k GiB for k in 1..MaxMemRoot
MaxMemRoot == 2

\* destination sizes, in GB (10^9 bytes). 32 TB = 32000 GB is where
\* size <= LIMITER stops holding, 128 TB where size >= mdswh starts to.
DeviceSizesGB == {32, 64, 128, 32001, 128000}

SectorSizes == {512}

DevPrefix == <<"/", "d", "e", "v", "/", "s", "d">>

Letters ==
    <<"b", "c", "d", "e", "f", "g", "h", "i", "j", "k", "l", "m", "n", "o",
      "p", "q", "r", "s", "t", "u", "v", "w", "x", "y", "z">>

RootPath == DevPrefix \o <<"a">>

\* the member device of slot i
Disk(i) == DevPrefix \o <<Letters[i]>>

\* an existing home partition on the destination, and one on another drive
HomeSame == RootPath \o <<"3">>

HomeOther == Disk(1) \o <<"1">>

Homes == {None, NULL, MAKE, HomeSame, HomeOther}

RaidTypes ==
    {NoRaid, <<"str", "OEM">>, <<"str", "raid0">>, <<"str", "raid1">>,
     <<"str", "RAID1">>, <<"str", "raid5">>, <<"str", "raid6">>,
     <<"str", "raid10">>}

\* raid_array["disks"]: slot i holds None or the path of its device
DiskDicts ==
    {d \in [1..MaxSlots -> {0, 1}] : TRUE}

DictOf(d) == [i \in 1..MaxSlots |-> IF d[i] = 1 THEN Disk(i) ELSE None]

\* A free-space region of an existing table, in sectors.
Region(start, length) ==
    [start |-> BigOf(start), length |-> BigOf(length),
     end |-> BigOf(start + length - 1)]

\* regions of about 52 MB, 205 MB (195 MiB) and 250 MB; each starts on a
\* whole megabyte
RegionCatalogue ==
    {Region(62500, 102400), Region(1000000, 400000), Region(2000000, 488282)}

\* where the existing home partition of HomeSame lies, in sectors
ExistingHome == [start |-> BigOf(4000000), end |-> BigOf(8000000)]

\* ------------------------------------------------------------------- state

VARIABLES
    pc,          \* position in partition()
    root,        \* argument: path of the destination drive
    efi,         \* argument: booted with UEFI
    home,        \* argument, reassigned at line 439
    raid_array,  \* argument, mutated at lines 400-418
    device,      \* parted.getDevice(root): length (sectors), sectorSize
    hasTable,    \* the destination carries a partition table
    free,        \* the table's free-space regions before the run
    parts,       \* the table's partitions, in order of creation
    missing,     \* member device paths for which os.path.exists is false
    size,        \* local of partition(), line 425
    part1, part2, part3,
    branch,      \* the arm of the decision tree that was entered, or ""
    plan,        \* the calls the chosen branch still has to make
    log,         \* calls made to the block-device and formatting services
    raidCalls,   \* the make_raid_array calls that reached mkfs.btrfs
    raised,      \* the exception that left partition(), or "none"
    ret,         \* the mapping partition() returned, or None
    config,      \* the module's config, read once from settings.json
    session      \* what outlives a call: call, the number of the call;
                 \* home and request, the arguments the caller passes
                 \* (request: raid_array before line 400 touches it);
                 \* mem, the RAM psutil reported in GiB (0: not read
                 \* yet); formatter, the outcomes mkfs and mkfs.fat can
                 \* have on this machine; first, how the first call went

vars ==
    <<pc, root, efi, home, raid_array, device, hasTable, free, parts,
      missing, size, part1, part2, part3, branch, plan, log, raidCalls,
      raised, ret, config, session>>

Device(gb, ss) ==
    [length |-> BDivSmall(gb_to_bytes(gb), ss), sectorSize |-> ss]

\* a partition of the table: start and end as the planner passed them,
\* geoStart the first sector of the geometry it built from them
Part(path, num, role, start, end, boot, geoStart) ==
    [path |-> path, num |-> num, role |-> role, start |-> start, end |-> end,
     boot |-> boot, geoStart |-> geoStart]

\* no first call yet
NoFirst == [pc |-> "", raised |-> "none", log |-> <<>>]

\* an outcome of a formatter: ok, it exited with status 0; decodes, the
\* bytes it printed are valid UTF-8
Outcome(ok, decodes) == [ok |-> ok, decodes |-> decodes]

\* the formatter succeeds and prints text
Formatted == {Outcome(TRUE, TRUE)}

\* every outcome subprocess.check_output can report of a formatter that ran
Outcomes == {Outcome(ok, decodes) : ok \in BOOLEAN, decodes \in BOOLEAN}

\* the arguments of partition() and what it finds on the machine
Inputs(cfgs, homes, tables, gbs, outcomes) ==
    /\ pc = "start"
    /\ root = RootPath
    /\ efi \in BOOLEAN
    /\ home \in homes
    /\ config \in cfgs
    /\ \E t \in RaidTypes, d \in DiskDicts :
          raid_array = [raid_type |-> t, disks |-> DictOf(d)]
    /\ session = [call |-> 1, home |-> home, request |-> raid_array,
                  mem |-> 0, formatter |-> outcomes, first |-> NoFirst]
    /\ \E gb \in gbs, ss \in SectorSizes : device = Device(gb, ss)
    /\ hasTable \in tables
    /\ IF hasTable /\ home = HomeSame
       THEN /\ free \in SUBSET RegionCatalogue
            /\ parts = <<Part(HomeSame, 3, "existing", ExistingHome.start,
                              ExistingHome.end, FALSE, ExistingHome.start)>>
       ELSE /\ free = {}
            /\ parts = <<>>
    /\ missing \in {{}, {Disk(2)}}
    /\ size = BigOf(0)
    /\ part1 = None
    /\ part2 = None
    /\ part3 = None
    /\ branch = ""
    /\ plan = <<>>
    /\ log = <<>>
    /\ raidCalls = <<>>
    /\ raised = "none"
    /\ ret = [EFI |-> None, ROOT |-> None, HOME |-> None]

Init == Inputs({DefaultConfig}, Homes, BOOLEAN, DeviceSizesGB, Formatted)

\* ------------------------------------------------- the services' call log

\* ok: the call succeeded (a formatter: it exited with status 0)
Ev(op, path, role, start, end, boot) ==
    [op |-> op, path |-> path, role |-> role, start |-> start, end |-> end,
     boot |-> boot, ok |-> TRUE]

Op(op) == Ev(op, None, "", BigOf(0), BigOf(0), FALSE)

\* the free space of a table that has just been created: one region. Its
\* first sector is taken on a whole megabyte.
FreshFree(dev) ==
    {[start |-> BigOf(15625),
      length |-> BSub(dev.length, BigOf(31250)),
      end |-> BSub(dev.length, BigOf(15626))]}

\* ------------------------------------------------ lines 400-418: the RAID
\* request is normalised in place

\* an exception leaves partition()
Raise(exc) ==
    /\ raised' = exc
    /\ pc' = "raised"
    /\ UNCHANGED <<root, efi, home, raid_array, device, hasTable, free,
                   parts, missing, size, part1, part2, part3, plan, log,
                   raidCalls, ret, branch, config, session>>

RaidTypeOfName(t) ==
    CASE Lower(t[2]) = "raid0" -> <<"int", 0>>
      [] Lower(t[2]) = "raid1" -> <<"int", 1>>
      [] Lower(t[2]) = "raid10" -> <<"int", 10>>
      [] OTHER -> t

\* as NormaliseRaid, without line 411: an unset slot "1" or "2" leaves
\* raid_type as it is
NormaliseRaid_NoReset ==
    /\ pc = "start"
    /\ LET t0 == raid_array.raid_type
           d0 == raid_array.disks
           named == t0 \notin {NoRaid, <<"str", "OEM">>}
           t2 == IF named THEN RaidTypeOfName(t0) ELSE t0
           d1 == IF t2 # NoRaid
                 THEN SelectSeq(d0, LAMBDA x : x # None)
                 ELSE d0
       IN IF t0[1] = "int"
          THEN Raise("AttributeError")
          ELSE /\ raid_array' = [raid_type |-> t2, disks |-> d1]
               /\ pc' = "open"
               /\ UNCHANGED <<root, efi, home, device, hasTable, free,
                              parts, missing, size, part1, part2, part3,
                              plan, log, raidCalls, raised, ret, branch,
                              config, session>>

NormaliseRaid ==
    /\ pc = "start"
    /\ LET t0 == raid_array.raid_type
           d0 == raid_array.disks
           named == t0 \notin {NoRaid, <<"str", "OEM">>}
           t1 == IF named THEN RaidTypeOfName(t0) ELSE t0
           t2 == IF named /\ \E i \in DOMAIN d0 : i \in {1, 2} /\ d0[i] = None
                 THEN NoRaid
                 ELSE t1
           d1 == IF t2 # NoRaid
                 THEN SelectSeq(d0, LAMBDA x : x # None)
                 ELSE d0
       IN IF t0[1] = "int"
          THEN \* line 401: an int has no lower()
               Raise("AttributeError")
          ELSE /\ raid_array' = [raid_type |-> t2, disks |-> d1]
               /\ pc' = "open"
               /\ UNCHANGED <<root, efi, home, device, hasTable, free,
                              parts, missing, size, part1, part2, part3,
                              plan, log, raidCalls, raised, ret, branch,
                              config, session>>

\* lines 419-425. parted.freshDisk builds a label in memory only; nothing is
\* written to the device until a commit.
OpenDisk ==
    /\ pc = "open"
    /\ log' = IF hasTable THEN log ELSE Append(log, Op("freshDisk"))
    /\ size' = BMulSmall(sectors_to_size(device.length, device.sectorSize),
                         1000)
    /\ pc' = "decide"
    /\ UNCHANGED <<root, efi, home, raid_array, device, hasTable, free,
                   parts, missing, part1, part2, part3, plan, raidCalls,
                   raised, ret,
                   branch, config, session>>

\* as clobber_disk, run twice
clobber_disk_Twice(l) ==
    l \o <<Op("clobber"), Op("freshDisk"), Op("commit"),
           Op("clobber"), Op("freshDisk"), Op("commit")>>

\* clobber_disk, lines 362-368
clobber_disk(l) ==
    l \o <<Op("clobber"), Op("freshDisk"), Op("commit")>>

\* lines 426-441, up to the first make_raid_array call
ClobberDecision ==
    /\ pc = "decide"
    /\ IF home \in {NULL, null, None, MAKE} /\ raid_array.raid_type = NoRaid
       THEN /\ log' = clobber_disk(log)
            /\ hasTable' = TRUE
            /\ parts' = <<>>
            /\ free' = FreshFree(device)
            /\ pc' = "branch"
       ELSE IF raid_array.raid_type # NoRaid
       THEN /\ log' = clobber_disk(log)
            /\ hasTable' = TRUE
            /\ parts' = <<>>
            /\ free' = FreshFree(device)
            /\ pc' = "raid1"
       ELSE /\ pc' = "branch"
            /\ UNCHANGED <<log, hasTable, parts, free>>
    /\ UNCHANGED <<root, efi, home, raid_array, device, missing, size,
                   part1, part2, part3, plan, raidCalls, raised, ret,
                   branch, config, session>>

\* ------------------------------------------ make_raid_array, lines 534-589

raid_types_dict ==
    [n \in {0, 1, 5, 6, 10} |->
        CASE n = 0 -> "raid0" [] n = 1 -> "raid1" [] n = 5 -> "raid5"
          [] n = 6 -> "raid6" [] n = 10 -> "raid10"]

\* raid_type not in raid_types_dict
InvalidRaidType(raid_type) ==
    ~(raid_type[1] = "int" /\ raid_type[2] \in DOMAIN raid_types_dict)

\* as BadDiskCount, the upper limit of RAID5 left out
BadDiskCount_NoUpper(disks, n) ==
    \/ n \in {0, 1} /\ Len(disks) < 2
    \/ n = 5 /\ ~(3 <= Len(disks))
    \/ n \in {6, 10} /\ Len(disks) < 4

\* lines 567-575
BadDiskCount(disks, n) ==
    \/ n \in {0, 1} /\ Len(disks) < 2
    \/ n = 5 /\ ~(3 <= Len(disks) /\ Len(disks) <= 16)
    \/ n \in {6, 10} /\ Len(disks) < 4

\* lines 562-564 and 579-583: the argument list of mkfs.btrfs
\* as RaidCommand, with the metadata profile given for every type
RaidCommand_MetaAlways(disks, n, force) ==
    [opts |-> (IF force THEN <<"mkfs.btrfs", "-f", "-d">>
                        ELSE <<"mkfs.btrfs", "-d">>)
              \o <<raid_types_dict[n], "-m", raid_types_dict[n]>>,
     disks |-> disks]

RaidCommand(disks, n, force) ==
    [opts |-> (IF force THEN <<"mkfs.btrfs", "-f", "-d">>
                        ELSE <<"mkfs.btrfs", "-d">>)
              \o <<raid_types_dict[n]>>
              \o (IF n \notin {0, 5, 6} THEN <<"-m", raid_types_dict[n]>>
                                        ELSE <<>>),
     disks |-> disks]

\* as RaidValidation, the member paths looked at first
RaidValidation_PathsFirst(disks, raid_type, gone) ==
    IF \E i \in DOMAIN disks : disks[i] \in gone THEN "FileNotFoundError"
    ELSE IF InvalidRaidType(raid_type) THEN "ValueError"
    ELSE IF BadDiskCount(disks, raid_type[2]) THEN "ValueError"
    ELSE "none"

\* The exception make_raid_array raises before running mkfs.btrfs, or "none"
RaidValidation(disks, raid_type, gone) ==
    IF InvalidRaidType(raid_type) THEN "ValueError"
    ELSE IF BadDiskCount(disks, raid_type[2]) THEN "ValueError"
    ELSE IF \E i \in DOMAIN disks : disks[i] \in gone THEN "FileNotFoundError"
    ELSE "none"

\* One call of make_raid_array from partition(): it raises, or runs
\* mkfs.btrfs once and returns whether the command succeeded.
make_raid_array(force, onTrue, onFalse) ==
    LET exc == RaidValidation(raid_array.disks, raid_array.raid_type, missing)
    IN IF exc # "none"
       THEN /\ raised' = exc
            /\ pc' = "raised"
            /\ UNCHANGED <<log, raidCalls>>
       ELSE \E ok \in BOOLEAN :
            LET cmd == RaidCommand(raid_array.disks, raid_array.raid_type[2],
                                   force)
            IN /\ raidCalls' = Append(raidCalls,
                                      [force |-> force, command |-> cmd,
                                       ok |-> ok])
               /\ log' = Append(log, [Op("mkfs.btrfs") EXCEPT !.ok = ok])
               /\ pc' = IF ok THEN onTrue ELSE onFalse
               /\ UNCHANGED raised

\* line 433
RaidFirst ==
    /\ pc = "raid1"
    /\ make_raid_array(FALSE, "branch", "raid2")
    /\ UNCHANGED <<root, efi, home, raid_array, device, hasTable, free,
                   parts, missing, size, part1, part2, part3, plan, ret,
                   branch, config, session>>

\* lines 434-436
RaidForced ==
    /\ pc = "raid2"
    /\ make_raid_array(TRUE, "branch", "fallback")
    /\ UNCHANGED <<root, efi, home, raid_array, device, hasTable, free,
                   parts, missing, size, part1, part2, part3, plan, ret,
                   branch, config, session>>

\* as RaidFallback, home left as it was
RaidFallback_KeepsHome ==
    /\ pc = "fallback"
    /\ pc' = "branch"
    /\ UNCHANGED <<root, efi, home, raid_array, device, hasTable, free,
                   parts, missing, size, part1, part2, part3, plan, log,
                   raidCalls, raised, ret, branch, config, session>>

\* lines 437-439
RaidFallback ==
    /\ pc = "fallback"
    /\ home' = None
    /\ pc' = "branch"
    /\ UNCHANGED <<root, efi, raid_array, device, hasTable, free, parts,
                   missing, size, part1, part2, part3, plan, log, raidCalls,
                   raised, ret,
                   branch, config, session>>

\* --------------------------------------- lines 442-531: the decision tree

Call(fn, start, end, dst) ==
    [fn |-> fn, start |-> start, end |-> end, dst |-> dst]

Boot == Call("boot", BigOf(0), BigOf(0), 0)

\* as EfiThenRootToEnd, the UEFI arm lost
EfiThenRootToEnd_NoEfi == <<Call("root", Pct(0), Pct(100), 1), Boot>>

\* the calls of lines 443-448, repeated at 475-480
EfiThenRootToEnd ==
    IF efi
    THEN <<Call("efi", config.EFI.START, config.EFI.END, 1),
           Call("root", config.ROOT.START, Pct(100), 2)>>
    ELSE <<Call("root", Pct(0), Pct(100), 1), Boot>>

IsSmall == BLe(size, LIMITER)

Branch(name, calls) ==
    /\ branch' = name
    /\ plan' = calls
    /\ pc' = "make"
    /\ UNCHANGED <<root, efi, home, raid_array, device, hasTable, free,
                   parts, missing, size, part1, part2, part3, log,
                   raidCalls, raised, ret, config>>

\* lines 442-450
SmallDisk ==
    /\ pc = "branch"
    /\ IsSmall
    /\ Branch("small", EfiThenRootToEnd)
    /\ UNCHANGED session

\* line 458: int((size * 0.35) / (1000 ** 2))
LargeRootEnd(sz) == BDivMillion(BDivSmall(BMulSmall(sz, 35), 100))

\* lines 457-460; memGiB is the RAM psutil reports
RootEnd(sz, memGiB) ==
    IF BLe(gb_to_bytes(Mdswh), sz)
    THEN LargeRootEnd(sz)
    ELSE get_min_root_size(TRUE, memGiB)

\* lines 461-468
\* as HomeMakeCalls, with __make_root_boot__ called after __make_home__
HomeMakeCalls_BootLast(root_end) ==
    IF efi /\ part1 = None
    THEN <<Call("efi", config.EFI.START, config.EFI.END, 1),
           Call("root", config.ROOT.START, root_end, 2),
           Call("home", root_end, config.HOME.END, 3)>>
    ELSE IF part1 = None
    THEN <<Call("root", Pct(0), root_end, 1),
           Call("home", root_end, config.HOME.END, 2),
           Boot>>
    ELSE <<>>

HomeMakeCalls(root_end) ==
    IF efi /\ part1 = None
    THEN <<Call("efi", config.EFI.START, config.EFI.END, 1),
           Call("root", config.ROOT.START, root_end, 2),
           Call("home", root_end, config.HOME.END, 3)>>
    ELSE IF part1 = None
    THEN <<Call("root", Pct(0), root_end, 1),
           Boot,
           Call("home", root_end, config.HOME.END, 2)>>
    ELSE <<>>

\* lines 454-470
HomeMake ==
    /\ pc = "branch"
    /\ ~IsSmall
    /\ home = MAKE
    /\ \E k \in 1..MaxMemRoot :
          /\ session.mem \in {0, k * k}
          /\ Branch("make", HomeMakeCalls(RootEnd(size, k * k)))
          /\ session' = IF BLe(gb_to_bytes(Mdswh), size)
                         THEN session
                         ELSE [session EXCEPT !.mem = k * k]

\* lines 471-482
HomeNone ==
    /\ pc = "branch"
    /\ ~IsSmall
    /\ home # MAKE
    /\ home \in {NULL, null, None}
    /\ Branch("none", EfiThenRootToEnd)
    /\ UNCHANGED session

\* lines 485-488
check == IF HasNvme(home) THEN DropLast(home, 2) ELSE DropLast(home, 1)

IsPath == ~IsSmall /\ home # MAKE /\ home \notin {NULL, null, None}

\* Geometry.getSize() >= 200: pyparted's getSize counts in units of 2^20
\* bytes
GetSizeAtLeast200(r, sector_size) ==
    BLe(BigOf(200 * 1048576), BMul(r.length, sector_size))

\* lines 495-498: sizes[each.length] = each keeps, per length, the last
\* region in table order
sizes(regions) ==
    {r \in regions :
        \A q \in regions : q.length = r.length => BLe(q.start, r.start)}

\* as Chosen, the getSize() >= 200 test left out
Chosen_NoThreshold(regions, sector_size) ==
    {r \in sizes(regions) :
        \A q \in sizes(regions) : BLe(r.length, q.length)}

\* lines 501-502 / 512-513: the regions the scan in ascending order of
\* length stops at (none, or one)
Chosen(regions, sector_size) ==
    {r \in sizes(regions) :
        /\ GetSizeAtLeast200(r, sector_size)
        /\ \A q \in sizes(regions) :
              GetSizeAtLeast200(q, sector_size) => BLe(r.length, q.length)}

\* lines 500-517
SameDeviceCalls(regions) ==
    LET ss == device.sectorSize
        hit == Chosen(regions, ss)
    IN IF hit = {} THEN <<>>
       ELSE LET r == CHOOSE x \in hit : TRUE
                end == sectors_to_size(
                           BAdd(r.start, sizeToSectors(BigOf(200), ss)), ss)
            IN IF efi
               THEN <<Call("efi", r.start, end, 1),
                      Call("root", end, r.end, 2)>>
               ELSE <<Call("root", r.start, r.end, 1), Boot>>

\* lines 489-519. parted.Disk(device) at line 493 needs a table on the
\* device.
SameDevice ==
    /\ pc = "branch"
    /\ IsPath
    /\ root = check
    /\ IF hasTable
       THEN Branch("same", SameDeviceCalls(free)) /\ UNCHANGED session
       ELSE /\ raised' = "DiskLabelException"
            /\ pc' = "raised"
            /\ UNCHANGED <<root, efi, home, raid_array, device, hasTable,
                           free, parts, missing, size, part1, part2, part3,
                           plan, log, raidCalls, ret,
                   branch, config, session>>

\* lines 520-527; line 527 is the last call of the plan
OtherDevice ==
    /\ pc = "branch"
    /\ IsPath
    /\ root # check
    /\ Branch("other",
              (IF efi
               THEN <<Call("efi", config.EFI.START, config.EFI.END, 1),
                      Call("root", config.ROOT.START, config.ROOT.END, 2)>>
               ELSE <<Call("root", Pct(0), Pct(100), 1), Boot>>)
              \o <<Call("part3", BigOf(0), BigOf(0), 3)>>)
    /\ UNCHANGED session

\* ------------------------------------------------ the geometry planner

Digits == <<"1", "2", "3", "4", "5", "6", "7", "8", "9">>

\* the number parted gives a new partition: the lowest one not in use
NextNum(ps) ==
    CHOOSE n \in 1..9 :
        /\ \A i \in DOMAIN ps : ps[i].num # n
        /\ \A k \in 1..(n - 1) : \E i \in DOMAIN ps : ps[i].num = k

\* new_part.path
PathOf(n) == root \o <<Digits[n]>>

Making(fn) == pc = "make" /\ plan # <<>> /\ Head(plan).fn = fn

\* part1, part2 or part3 receives the value a call returned
Assign(dst, v) ==
    /\ part1' = IF dst = 1 THEN v ELSE part1
    /\ part2' = IF dst = 2 THEN v ELSE part2
    /\ part3' = IF dst = 3 THEN v ELSE part3

\* parted.Disk(device) raises when the device carries no table
NoTable ==
    /\ raised' = "DiskLabelException"
    /\ pc' = "raised"
    /\ UNCHANGED <<root, efi, home, raid_array, device, hasTable, free,
                   parts, missing, size, part1, part2, part3, plan, log,
                   raidCalls, ret,
                   branch, config, session>>

\* __mkfs__, lines 151-166: CalledProcessError is caught, and so is the
\* UnicodeDecodeError of decoding the output of a run that succeeded; the
\* output of a run that failed is decoded inside the handler, line 165,
\* where nothing catches
__mkfs__(o) == IF ~o.ok /\ ~o.decodes THEN "UnicodeDecodeError" ELSE "none"

\* __mkfs_fat__, lines 169-177: CalledProcessError is caught; the output is
\* decoded at lines 174 and 176, where nothing catches UnicodeDecodeError
__mkfs_fat__(o) == IF ~o.decodes THEN "UnicodeDecodeError" ELSE "none"

\* what leaves the formatter named mkfs
Formatter(mkfs, o) == IF mkfs = "mkfs.fat" THEN __mkfs_fat__(o) ELSE __mkfs__(o)

\* addPartition, commit, format, return new_part.path: lines 213-221 and
\* 277-284. The value the formatter returned is dropped; an exception that
\* leaves it leaves partition().
Create(role, start, end, boot, geoStart, mkfs) ==
    \E o \in session.formatter :
        LET n == NextNum(parts)
            path == PathOf(n)
            exc == Formatter(mkfs, o)
        IN /\ parts' = Append(parts,
                              Part(path, n, role, start, end, boot, geoStart))
           /\ log' = log \o <<Ev("add", path, role, start, end, boot),
                              Ev("commit", path, role, start, end, boot),
                              [Ev(mkfs, path, role, start, end, boot)
                                  EXCEPT !.ok = o.ok]>>
           /\ IF exc = "none"
              THEN /\ Assign(Head(plan).dst, path)
                   /\ plan' = Tail(plan)
                   /\ UNCHANGED <<pc, raised>>
              ELSE /\ raised' = exc
                   /\ pc' = "raised"
                   /\ UNCHANGED <<part1, part2, part3, plan>>
           /\ UNCHANGED <<root, efi, home, raid_array, device, hasTable,
                          free, missing, size, raidCalls, ret, branch,
                          config, session>>

\* __make_efi__, lines 180-221: the geometry starts at sector `start` and is
\* sizeToSectors(end - start, "MB") long; the boot flag is set before the
\* partition is added
MakeEfi ==
    /\ Making("efi")
    /\ IF hasTable
       THEN Create("EFI", Head(plan).start, Head(plan).end, TRUE,
                   Head(plan).start, "mkfs.fat")
       ELSE NoTable

\* lines 233-245: a boundary ending in "%" becomes int(size * (n / 100)),
\* size being the device's length in MB
Resolve(x, sizeMB) ==
    IF IsPct(x) THEN BDivSmall(BMulSmall(sizeMB, x.pct), 100) ELSE x

\* __make_root__, lines 229-284
make_root(role) ==
    LET sizeMB == sectors_to_size(device.length, device.sectorSize)
        start == Resolve(Head(plan).start, sizeMB)
        end == Resolve(Head(plan).end, sizeMB)
    IN IF IsBadPct(Head(plan).start) \/ IsBadPct(Head(plan).end)
       THEN Raise("ValueError")
       ELSE IF hasTable
       THEN Create(role, start, end, FALSE,
                   sizeToSectors(start, device.sectorSize), "mkfs")
       ELSE NoTable

MakeRoot ==
    /\ Making("root")
    /\ make_root("ROOT")

\* __make_home__, lines 287-290
MakeHome ==
    /\ Making("home")
    /\ make_root("HOME")

\* disk.getPrimaryPartitions()[0]: the partition that lies first on the disk
FirstPrimary(ps) ==
    CHOOSE i \in DOMAIN ps :
        \A j \in DOMAIN ps :
            \/ BLt(ps[i].geoStart, ps[j].geoStart)
            \/ (ps[i].geoStart = ps[j].geoStart /\ i <= j)

\* __make_root_boot__, lines 312-320
MakeRootBoot ==
    /\ Making("boot")
    /\ IF hasTable
       THEN LET i == FirstPrimary(parts)
            IN /\ parts' = [parts EXCEPT ![i].boot = TRUE]
               /\ log' = log \o <<Ev("setFlag", parts[i].path, parts[i].role,
                                     parts[i].start, parts[i].end, TRUE),
                                  Ev("commit", parts[i].path, parts[i].role,
                                     parts[i].start, parts[i].end, TRUE)>>
               /\ plan' = Tail(plan)
               /\ UNCHANGED <<pc, root, efi, home, raid_array, device,
                              hasTable, free, missing, size, part1, part2,
                              part3, raidCalls, raised, ret,
                   branch, config, session>>
       ELSE NoTable

\* line 527
AssignPart3 ==
    /\ Making("part3")
    /\ Assign(3, home)
    /\ plan' = Tail(plan)
    /\ UNCHANGED <<pc, root, efi, home, raid_array, device, hasTable, free,
                   parts, missing, size, log, raidCalls, raised, ret,
                   branch, config, session>>

\* as generate_return_data, ROOT read from the slot after the right one
generate_return_data_Shifted(h, e, p1, p2, p3) ==
    [EFI |-> IF e THEN p1 ELSE None,
     ROOT |-> IF e THEN p3 ELSE p2,
     HOME |-> IF h # MAKE THEN h ELSE IF e THEN p3 ELSE p2]

\* as generate_return_data, HOME always the home argument
generate_return_data_HomeAsGiven(h, e, p1, p2, p3) ==
    [EFI |-> IF e THEN p1 ELSE None,
     ROOT |-> IF e THEN p2 ELSE p1,
     HOME |-> h]

\* __generate_return_data__, lines 293-309
generate_return_data(h, e, p1, p2, p3) ==
    [EFI |-> IF e THEN p1 ELSE None,
     ROOT |-> IF e THEN p2 ELSE p1,
     HOME |-> IF h # MAKE THEN h ELSE IF e THEN p3 ELSE p2]

\* the return statements at lines 450, 470, 482, 519 and 531
Return ==
    /\ pc = "make"
    /\ plan = <<>>
    /\ ret' = generate_return_data(home, efi, part1, part2, part3)
    /\ pc' = "returned"
    /\ UNCHANGED <<root, efi, home, raid_array, device, hasTable, free,
                   parts, missing, size, part1, part2, part3, plan, log,
                   raidCalls, raised,
                   branch, config, session>>

Next ==
    \/ NormaliseRaid
    \/ OpenDisk
    \/ ClobberDecision
    \/ RaidFirst
    \/ RaidForced
    \/ RaidFallback
    \/ SmallDisk
    \/ HomeMake
    \/ HomeNone
    \/ SameDevice
    \/ OtherDevice
    \/ MakeEfi
    \/ MakeRoot
    \/ MakeHome
    \/ MakeRootBoot
    \/ AssignPart3
    \/ Return

Spec == Init /\ [][Next]_vars

\* ------------------------------------ settings.json gives the config

InitConfig == Inputs(Configs, Homes, BOOLEAN, DeviceSizesGB, Formatted)

SpecConfig == InitConfig /\ [][Next]_vars

\* --------------------------------- partition() called twice by its caller

\* The caller calls partition() again with the arguments of the first call
\* (raid_array is the dict the first call worked on), on the disk as the
\* first call left it.
Restart ==
    /\ pc \in {"returned", "raised"}
    /\ session.call = 1
    /\ session' = [session EXCEPT
                      !.call = 2,
                      !.first = [pc |-> pc, raised |-> raised, log |-> log]]
    /\ pc' = "start"
    /\ home' = session.home
    /\ size' = BigOf(0)
    /\ part1' = None
    /\ part2' = None
    /\ part3' = None
    /\ branch' = ""
    /\ plan' = <<>>
    /\ log' = <<>>
    /\ raidCalls' = <<>>
    /\ raised' = "none"
    /\ ret' = [EFI |-> None, ROOT |-> None, HOME |-> None]
    /\ UNCHANGED <<root, efi, raid_array, device, hasTable, free, parts,
                   missing, config>>

\* the first call starts on a clobbered, empty table: there is no home
\* partition on the destination
InitTwice ==
    Inputs({DefaultConfig}, Homes \ {HomeSame}, {TRUE}, DeviceSizesGB,
           Formatted)

NextTwice ==
    \/ NormaliseRaid
    \/ OpenDisk
    \/ ClobberDecision
    \/ RaidFirst
    \/ RaidForced
    \/ RaidFallback
    \/ SmallDisk
    \/ HomeMake
    \/ HomeNone
    \/ OtherDevice
    \/ MakeEfi
    \/ MakeRoot
    \/ MakeHome
    \/ MakeRootBoot
    \/ AssignPart3
    \/ Return
    \/ Restart

SpecTwice == InitTwice /\ [][NextTwice]_vars

\* ------------------------------- make_raid_array called on its own, with
\* any raid_type and any number of member disks

\* the longest list of member disks
MaxDisks == 17

\* raid_type: the ints around the five supported ones, and a str
RaidCallTypes == {<<"int", n>> : n \in 0..11} \cup {<<"str", "raid5">>}

\* disks: the first k member devices
RaidCallDisks == {[i \in 1..k |-> Disk(i)] : k \in 0..MaxDisks}

InitRaid ==
    /\ pc = "call"
    /\ root = RootPath
    /\ efi = FALSE
    /\ home = None
    /\ \E t \in RaidCallTypes, d \in RaidCallDisks :
          raid_array = [raid_type |-> t, disks |-> d]
    /\ device = Device(LimiterGB, 512)
    /\ hasTable = TRUE
    /\ free = {}
    /\ parts = <<>>
    /\ missing \in {{}, {Disk(1)}, {Disk(3)}}
    /\ size = BigOf(0)
    /\ part1 = None
    /\ part2 = None
    /\ part3 = None
    /\ branch = ""
    /\ plan = <<>>
    /\ log = <<>>
    /\ raidCalls = <<>>
    /\ raised = "none"
    /\ ret = [EFI |-> None, ROOT |-> None, HOME |-> None]
    /\ config = DefaultConfig
    /\ session = [call |-> 1, home |-> home, request |-> raid_array,
                  mem |-> 0, formatter |-> Formatted, first |-> NoFirst]

\* make_raid_array(disks, raid_type, force): pc becomes "true" or "false",
\* the value returned, or "raised"
CallMakeRaidArray ==
    /\ pc = "call"
    /\ \E force \in BOOLEAN : make_raid_array(force, "true", "false")
    /\ UNCHANGED <<root, efi, home, raid_array, device, hasTable, free,
                   parts, missing, size, part1, part2, part3, plan, ret,
                   branch, config, session>>

NextRaid == CallMakeRaidArray

SpecRaid == InitRaid /\ [][NextRaid]_vars

\* ------------------------------------------- get_min_root_size, called on
\* its own

\* RAM sizes are k * k GiB for k in 1..MaxMemCall
MaxMemCall == 40

MemSizes == {k * k : k \in 1..MaxMemCall}

\* the call get_min_root_size(swap, ram_size, ram_size_unit=False):
\* ram_size in GiB here, 0 standing for ram_size=False (the RAM is read
\* from psutil)
InitMinRoot ==
    /\ pc = "call"
    /\ root = RootPath
    /\ efi = FALSE
    /\ home = None
    /\ raid_array = [raid_type |-> NoRaid, disks |-> <<>>]
    /\ device = Device(LimiterGB, 512)
    /\ hasTable = TRUE
    /\ free = {}
    /\ parts = <<>>
    /\ missing = {}
    /\ size = BigOf(0)
    /\ part1 = None
    /\ part2 = None
    /\ part3 = None
    /\ branch = ""
    /\ \E swap \in BOOLEAN, g \in MemSizes \cup {0} :
          plan = <<[fn |-> "get_min_root_size", swap |-> swap,
                    ram_size |-> g]>>
    /\ log = <<>>
    /\ raidCalls = <<>>
    /\ raised = "none"
    /\ ret = [EFI |-> None, ROOT |-> None, HOME |-> None]
    /\ config = DefaultConfig
    /\ session = [call |-> 1, home |-> home, request |-> raid_array,
                  mem |-> 0, formatter |-> Formatted, first |-> NoFirst]

\* lines 113-135: size receives the value returned; the RAM is read (lines
\* 115-116) only when swap is true and no ram_size was given
CallGetMinRootSize ==
    /\ pc = "call"
    /\ LET a == Head(plan)
       IN IF a.swap
          THEN \E g \in (IF a.ram_size = 0 THEN MemSizes ELSE {a.ram_size}) :
                  /\ size' = get_min_root_size(TRUE, g)
                  /\ session' = [session EXCEPT !.mem = g]
          ELSE /\ size' = get_min_root_size(FALSE, a.ram_size)
               /\ UNCHANGED session
    /\ pc' = "done"
    /\ UNCHANGED <<root, efi, home, raid_array, device, hasTable, free,
                   parts, missing, part1, part2, part3, branch, plan, log,
                   raidCalls, raised, ret, config>>

NextMinRoot == CallGetMinRootSize

SpecMinRoot == InitMinRoot /\ [][NextMinRoot]_vars

\* ------------------------------------------ partition(), formatters that
\* fail or print bytes that are not UTF-8

InitFormat == Inputs({DefaultConfig}, Homes, BOOLEAN, DeviceSizesGB, Outcomes)

SpecFormat == InitFormat /\ [][Next]_vars

\* ---------------------------------------------------- terms of the claims

\* the partitions this run created, in order
Created == SelectSeq(parts, LAMBDA p : p.role # "existing")

DeviceBytes == BMul(device.length, device.sectorSize)

DeviceMB == sectors_to_size(device.length, device.sectorSize)

Logged(op) == \E i \in DOMAIN log : log[i].op = op

EfiCreated == \E i \in DOMAIN log : log[i].op = "add" /\ log[i].role = "EFI"

\* no RAID array was asked for, or the request was dropped at line 411
NoRaidRun == raid_array.raid_type = NoRaid /\ raidCalls = <<>>

HomeIsPath == home \notin {NULL, null, None, MAKE}

\* the same-device arm found no region to put the new partitions in
NoRoom == branch = "same" /\ Chosen(free, device.sectorSize) = {}

\* C1 (as amended): a returned mapping has ROOT set, except when the
\* same-device existing-home arm found no free region of 200 MiB or more:
\* then, and only then, ROOT is null.
C1_RootSetUnlessNoRoom ==
    pc = "returned" => IF NoRoom THEN ret.ROOT = None ELSE ret.ROOT # None

\* C1 as stated: every returned mapping has a non-null ROOT.
C1_RootAlwaysSet == pc = "returned" => ret.ROOT # None

C1_Witness ==
    pc = "returned" /\ branch = "same" /\ ~NoRoom /\ ret.ROOT # None

\* C2 (as amended): in a run that returns, an EFI partition is created and
\* the EFI entry is non-null exactly when efi is true, except when the
\* same-device existing-home arm found no free region: then no EFI partition
\* is created and the EFI entry is null whatever efi is.
C2_EfiIffUefiUnlessNoRoom ==
    pc = "returned" =>
        IF NoRoom
        THEN ~EfiCreated /\ ret.EFI = None
        ELSE (EfiCreated <=> efi) /\ (ret.EFI # None <=> efi)

\* C2 as stated: an EFI partition is created, and EFI is non-null, iff efi,
\* in every branch.
C2_EfiIffUefi ==
    pc = "returned" => ((EfiCreated /\ ret.EFI # None) <=> efi)

C2_Witness ==
    pc = "returned" /\ efi /\ EfiCreated /\ ret.EFI # None /\ branch = "same"

\* the created partition with the given role (the first, if several)
PartOf(role) ==
    LET c == Created
    IN c[CHOOSE i \in DOMAIN c :
            c[i].role = role /\ \A j \in 1..(i - 1) : c[j].role # role]

HasPart(role) == \E i \in DOMAIN Created : Created[i].role = role

\* the position in log of the first call of the given kind, 0 if none
FirstOp(op) ==
    IF Logged(op)
    THEN CHOOSE i \in DOMAIN log :
            log[i].op = op /\ \A j \in 1..(i - 1) : log[j].op # op
    ELSE 0

\* exactly one root partition spanning the device, behind an EFI partition
\* iff efi, and nothing else
OnlyRootOverWholeDevice ==
    LET c == Created
    IN IF efi
       THEN /\ Len(c) = 2
            /\ c[1].role = "EFI"
            /\ c[2].role = "ROOT"
            /\ c[2].end = DeviceMB
       ELSE /\ Len(c) = 1
            /\ c[1].role = "ROOT"
            /\ c[1].start = BigOf(0)
            /\ c[1].end = DeviceMB

\* C3: a device of at most 32 GB gets exactly one root partition over the
\* whole device (behind an EFI partition iff UEFI) and nothing else, and a
\* device of more than 32 GB never enters the small-disk branch.
C3_SmallDiskBranch ==
    /\ (pc = "returned" /\ BLe(DeviceBytes, gb_to_bytes(LimiterGB)))
          => OnlyRootOverWholeDevice
    /\ BLt(gb_to_bytes(LimiterGB), DeviceBytes) => branch # "small"

\* C4: 64 GB, UEFI, home = "MAKE", no RAID: EFI (0-200 MB, boot flag), ROOT
\* from the end of EFI to about 22.4 GB, HOME from there to the end of the
\* device, created in that order, and all three entries returned non-null.
C4_EndToEnd64GB ==
    (/\ pc = "returned"
     /\ DeviceBytes = gb_to_bytes(64)
     /\ efi
     /\ home = MAKE
     /\ NoRaidRun)
    => LET c == Created
       IN /\ Len(c) = 3
          /\ c[1].role = "EFI" /\ c[2].role = "ROOT" /\ c[3].role = "HOME"
          /\ c[1].start = BigOf(0) /\ c[1].end = BigOf(200) /\ c[1].boot
          /\ c[2].start = c[1].end
          /\ BLe(BigOf(22300), c[2].end) /\ BLe(c[2].end, BigOf(22500))
          /\ c[3].start = c[2].end
          /\ c[3].end = DeviceMB
          /\ ret.EFI # None /\ ret.ROOT # None /\ ret.HOME # None

\* C5: with home = "MAKE" and no RAID the root partition ends at 35% of the
\* device's size in MB when the device is at or above the large-disk
\* threshold, and at minimum_root_size(), in MB, when it is above 32 GB and
\* below the threshold.
C5_RootEnd ==
    (pc = "returned" /\ home = MAKE /\ NoRaidRun /\ HasPart("ROOT"))
    => LET r == PartOf("ROOT")
       IN /\ BLe(gb_to_bytes(Mdswh), DeviceBytes)
             => r.end = BDivSmall(BMulSmall(DeviceMB, 35), 100)
          /\ (/\ BLt(gb_to_bytes(LimiterGB), DeviceBytes)
              /\ BLt(DeviceBytes, gb_to_bytes(Mdswh)))
             => \E k \in 1..MaxMemRoot :
                   r.end = BDivMillion(get_min_root_size(TRUE, k * k))

\* C6: every partition the run asks for ends after it starts and ends
\* within the device.
C6_RequestsWellFormed ==
    \A i \in DOMAIN Created :
        /\ BLt(Created[i].start, Created[i].end)
        /\ BLe(Created[i].end, DeviceMB)

\* C7: when a RAID validation error leaves partition(), nothing destructive
\* has happened: no clobber, no partition added or committed, no mkfs.btrfs.
C7_ValidationBeforeDestruction ==
    raised \in {"ValueError", "FileNotFoundError"}
    => \A i \in DOMAIN log :
          log[i].op \notin {"clobber", "add", "commit", "mkfs.btrfs"}

\* the sectors [geoStart, geoStart + length - 1] of a created partition lie
\* in the region r
Inside(p, r) ==
    /\ BLt(p.start, p.end)
    /\ BLe(r.start, p.geoStart)
    /\ BLt(BAdd(p.geoStart,
                sizeToSectors(BSub(p.end, p.start), device.sectorSize)),
           BAdd(r.end, BigOf(2)))

\* C8: home an existing partition of the destination and no RAID: the disk
\* is never clobbered, every partition created lies inside a region that was
\* free when the run started, the home partition stays in the table, and
\* with no region large enough nothing is created.
C8_SameDeviceHomeUntouched ==
    (HomeIsPath /\ root = check /\ NoRaidRun /\ hasTable)
    => /\ ~Logged("clobber")
       /\ \A i \in DOMAIN Created : \E r \in free : Inside(Created[i], r)
       /\ \E i \in DOMAIN parts : parts[i].path = home
       /\ Chosen(free, device.sectorSize) = {} => Created = <<>>

\* C9: home an existing partition of another drive and no RAID: the
\* destination is clobbered before any partition is added, EFI is created iff
\* UEFI, root ends at 100% of the device, and HOME is the path supplied.
C9_OtherDeviceHome ==
    (pc = "returned" /\ HomeIsPath /\ root # check /\ NoRaidRun)
    => /\ Logged("clobber")
       /\ FirstOp("clobber") < FirstOp("add")
       /\ EfiCreated <=> efi
       /\ HasPart("ROOT") /\ PartOf("ROOT").end = DeviceMB
       /\ ret.HOME = home

\* C10: a RAID request that passes validation is attempted, and mkfs.btrfs
\* is first run without force; a second, forced run happens
\* exactly when the first failed; there is no third; when both fail home
\* becomes None, nothing is raised, and the mapping returned has ROOT set and
\* HOME null.
C10_RaidRetry ==
    LET n == Len(raidCalls)
        past == pc \in {"fallback", "branch", "make", "returned"}
    IN /\ n <= 2
       /\ (past /\ raid_array.raid_type # NoRaid) => n >= 1
       /\ n >= 1 => ~raidCalls[1].force
       /\ n = 2 => ~raidCalls[1].ok /\ raidCalls[2].force
       /\ (past /\ n >= 1 /\ ~raidCalls[1].ok) => n = 2
       /\ (n = 2 /\ ~raidCalls[2].ok) =>
             /\ raised = "none"
             /\ pc \in {"branch", "make", "returned"} => home = None
             /\ pc = "returned" => ret.ROOT # None /\ ret.HOME = None

C10_Witness ==
    /\ pc = "returned"
    /\ Len(raidCalls) = 2
    /\ ~raidCalls[2].ok
    /\ ret.ROOT # None
    /\ ret.HOME = None

\* a region of n * 10^6 bytes or more
AtLeastMB(r, n) ==
    BLe(BTimesMillion(BigOf(n)), BMul(r.length, device.sectorSize))

\* a region of n * 2^20 bytes or more
AtLeastMiB(r, n) ==
    BLe(BigOf(n * 1048576), BMul(r.length, device.sectorSize))

\* the free regions at whose first sector the run placed its first partition
RegionTaken == {r \in free : r.start = Created[1].start}

RaidCallEnded == pc \in {"true", "false", "raised"}

\* the number of member disks is outside the range of RAID type n
OutOfRange(n, count) ==
    \/ n \in {0, 1} /\ count < 2
    \/ n = 5 /\ (count < 3 \/ count > 16)
    \/ n \in {6, 10} /\ count < 4

SupportedType(t) == t[1] = "int" /\ t[2] \in {0, 1, 5, 6, 10}

MemberMissing ==
    \E i \in DOMAIN raid_array.disks : raid_array.disks[i] \in missing

\* C12: for a supported type make_raid_array raises its validation error
\* (ValueError) exactly when the number of member disks is outside the range
\* of the type; otherwise it goes on to the path checks: type 0 with 1 disk
\* and type 5 with 17 disks are rejected, type 0 with 2 and type 5 with 16
\* are not.
C12_DiskCountRange ==
    (RaidCallEnded /\ SupportedType(raid_array.raid_type))
    => LET n == raid_array.raid_type[2]
           count == Len(raid_array.disks)
       IN /\ raised = "ValueError" <=> OutOfRange(n, count)
          /\ (n = 0 /\ count = 1) => raised = "ValueError"
          /\ (n = 5 /\ count = 17) => raised = "ValueError"
          /\ (n = 0 /\ count = 2) => raised # "ValueError"
          /\ (n = 5 /\ count = 16) => raised # "ValueError"

C12_Witness ==
    /\ pc = "raised"
    /\ raised = "ValueError"
    /\ raid_array.raid_type = <<"int", 5>>
    /\ Len(raid_array.disks) = 17

\* C13: make_raid_array runs mkfs.btrfs only when validation passes: an
\* unsupported raid_type raises ValueError, a member path that does not exist
\* raises FileNotFoundError, both before the command; the type and the count
\* are looked at before the paths; a call that passes runs the command once.
C13_NoCommandOnInvalid ==
    RaidCallEnded
    => LET t == raid_array.raid_type
           count == Len(raid_array.disks)
       IN /\ ~SupportedType(t) => raised = "ValueError"
          /\ (SupportedType(t) /\ OutOfRange(t[2], count))
                => raised = "ValueError"
          /\ (SupportedType(t) /\ ~OutOfRange(t[2], count) /\ MemberMissing)
                => raised = "FileNotFoundError"
          /\ raised # "none" => raidCalls = <<>> /\ ~Logged("mkfs.btrfs")
          /\ raised = "none" => Len(raidCalls) = 1 /\ Logged("mkfs.btrfs")

C13_Witness ==
    /\ pc = "raised"
    /\ raised = "ValueError"
    /\ ~SupportedType(raid_array.raid_type)
    /\ MemberMissing
    /\ raidCalls = <<>>

\* the values of home that stand for "no home partition"
NullValues == {None, NULL, null}

\* the home policy the caller asked for
Policy == session.home

PolicyIsPath == Policy \notin (NullValues \cup {MAKE})

HomeCreated ==
    HasPart("HOME") /\ ret.HOME = PartOf("HOME").path

HomeReused ==
    PolicyIsPath /\ ret.HOME = Policy /\ ~HasPart("HOME")

HomeOmitted ==
    ret.HOME \in NullValues /\ ~HasPart("HOME")

\* C14: a home partition is created only under the policy "MAKE"; a run that
\* returns has created the home partition and returns its path, or returns
\* the supplied path (only when the policy is a path) having created none,
\* or returns no home and has created none; never two of these.
C14_HomeCreatedReusedOrOmitted ==
    /\ HasPart("HOME") => Policy = MAKE
    /\ pc = "returned" =>
          /\ HomeCreated \/ HomeReused \/ HomeOmitted
          /\ ~(HomeCreated /\ ret.HOME = Policy)
          /\ (ret.HOME = Policy /\ ret.HOME \notin NullValues)
                => PolicyIsPath

C14_Witness ==
    pc = "returned" /\ Policy = MAKE /\ HomeCreated /\ ret.HOME # Policy

\* C15: when a run that created partitions returns, the EFI partition, if
\* one was created, carries the boot flag; otherwise exactly the partition
\* returned in ROOT carries it.
C15_BootFlag ==
    (pc = "returned" /\ Created # <<>>)
    => IF EfiCreated
       THEN PartOf("EFI").boot
       ELSE /\ \E i \in DOMAIN parts : parts[i].boot
            /\ \A i \in DOMAIN parts :
                  parts[i].boot => parts[i].path = ret.ROOT

\* an error raised while a configured START or END was being resolved
ConfigError == raised = "ValueError" /\ branch # ""

\* C16: when a malformed percentage string of the config makes partition()
\* fail, the destination has not been clobbered and no partition has been
\* added or committed.
C16_ConfigErrorBeforeMutation ==
    ConfigError
    => \A i \in DOMAIN log : log[i].op \notin {"clobber", "add", "commit"}

\* C17: a destination without a partition table never makes partition() fail
\* with a table-absence error, whatever the home policy and the RAID request,
\* and a run that returns leaves a table on the destination.
C17_TableAbsenceRecovered ==
    /\ raised # "DiskLabelException"
    /\ pc = "returned" => hasTable

\* the calls of a log without the paths the service gave the partitions
Requests(l) ==
    [i \in DOMAIN l |->
        [op |-> l[i].op, role |-> l[i].role, start |-> l[i].start,
         end |-> l[i].end, boot |-> l[i].boot]]

\* C18: after a first call of partition() that returned, a second call with
\* the arguments of the first returns too and has made the same sequence of
\* requests.
C18_SecondCallSame ==
    (/\ session.call = 2
     /\ session.first.pc = "returned"
     /\ pc \in {"returned", "raised"})
    => /\ pc = "returned"
       /\ Requests(log) = Requests(session.first.log)

\* some make_raid_array call of the run returned True
RaidBuilt == \E i \in DOMAIN raidCalls : raidCalls[i].ok

\* C19: in a returned mapping HOME is the path of the home partition the run
\* created when it created one, and one of the array's member devices when a
\* RAID array was built (and no home partition was created).
C19_HomeEntry ==
    pc = "returned"
    => /\ HasPart("HOME") => ret.HOME = PartOf("HOME").path
       /\ (RaidBuilt /\ ~HasPart("HOME"))
             => \E i \in DOMAIN raid_array.disks :
                   ret.HOME = raid_array.disks[i]

\* how many calls of the given kind the log holds
CountOp(op) == Cardinality({i \in DOMAIN log : log[i].op = op})

ClobberedOnceFirst ==
    /\ CountOp("clobber") = 1
    /\ Logged("add") => FirstOp("clobber") < FirstOp("add")

PastDecision == pc \in {"branch", "make", "returned"}

Request == session.request

\* the names of the RAID types
RaidNames == {"raid0", "raid1", "raid5", "raid6", "raid10"}

\* the request names a RAID type, in any letter case
RequestNamed ==
    /\ Request.raid_type[1] = "str"
    /\ Lower(Request.raid_type[2]) \in RaidNames

\* slot "1" or slot "2" of the request's member list is unset
SlotUnset == Request.disks[1] = None \/ Request.disks[2] = None

\* the clobber decision of a run with no RAID requested, lines 426-428 and
\* 440-441
ClobberAsNoRaid ==
    IF Policy \in (NullValues \cup {MAKE})
    THEN ClobberedOnceFirst
    ELSE ~Logged("clobber")

\* C21: when the request names a RAID type and slot "1" or "2" of its member
\* list is unset, raid_type is reset to none, the run never attempts an
\* array, clobbers exactly when a run with no RAID would, keeps the home
\* policy the caller gave (so every branch reads what it reads with no RAID
\* requested) and raises none of the errors of a RAID request.
C21_RequestAbandoned ==
    (RequestNamed /\ SlotUnset /\ pc # "start")
    => /\ raid_array.raid_type = NoRaid
       /\ raidCalls = <<>>
       /\ ~Logged("mkfs.btrfs")
       /\ pc \notin {"raid1", "raid2", "fallback"}
       /\ home = Policy
       /\ raised \notin {"ValueError", "FileNotFoundError", "AttributeError"}
       /\ PastDecision => ClobberAsNoRaid

C21_Witness ==
    /\ pc = "returned"
    /\ RequestNamed
    /\ Request.disks[1] # None
    /\ Request.disks[2] = None
    /\ Request.disks[3] # None
    /\ raid_array.raid_type = NoRaid
    /\ Policy = MAKE
    /\ ClobberedOnceFirst
    /\ HasPart("HOME")

\* ------------------------------------------------------------ claim C22

Formats == {"mkfs", "mkfs.fat"}

\* the formatter exited with a non-zero status for some partition
FormatFailed == \E i \in DOMAIN log : log[i].op \in Formats /\ ~log[i].ok

\* C22: when the formatter of a partition exits with a non-zero status the
\* creation step still returns the partition's path (part1, part2 or part3
\* holds it) and no exception leaves partition().
C22_FormatFailureNonFatal ==
    \A i \in DOMAIN log :
        (log[i].op \in Formats /\ ~log[i].ok)
        => /\ log[i].path \in {part1, part2, part3}
           /\ pc # "raised"

\* ------------------------------------------------------------ claim C23

\* C23: a request that names a RAID type and has slots "1" and "2" set
\* reaches make_raid_array with raid_type one of the integers 0, 1, 5, 6,
\* 10, and never ends in the invalid-type ValueError once the destination
\* has been clobbered.
C23_AcceptedNamesConverted ==
    (RequestNamed /\ ~SlotUnset /\ pc # "start")
    => /\ raid_array.raid_type \in {<<"int", n>> : n \in {0, 1, 5, 6, 10}}
       /\ ~(/\ raised = "ValueError"
            /\ Logged("clobber")
            /\ InvalidRaidType(raid_array.raid_type))

\* ------------------------------------------------------------ claim C24

\* the btrfs profile of a RAID type
Profile(n) ==
    CASE n = 0 -> "raid0" [] n = 1 -> "raid1" [] n = 5 -> "raid5"
      [] n = 6 -> "raid6" [] n = 10 -> "raid10"

\* option opt is in the command, followed by value
HasOption(opts, opt, value) ==
    \E i \in 1..(Len(opts) - 1) : opts[i] = opt /\ opts[i + 1] = value

HasFlag(opts, opt) == \E i \in DOMAIN opts : opts[i] = opt

\* C24: a call of make_raid_array that passes validation runs mkfs.btrfs
\* once; the command has -d with the profile of the requested type, has -m
\* (with the same profile) iff the type is not 0, 5 or 6, has -f iff force,
\* and lists the member disks as given; the call returns true iff the
\* command succeeds.
C24_ArrayCommand ==
    (pc \in {"true", "false"})
    => /\ Len(raidCalls) = 1
       /\ CountOp("mkfs.btrfs") = 1
       /\ LET c == raidCalls[1]
              n == raid_array.raid_type[2]
          IN /\ Head(c.command.opts) = "mkfs.btrfs"
             /\ HasOption(c.command.opts, "-d", Profile(n))
             /\ HasFlag(c.command.opts, "-m") <=> n \notin {0, 5, 6}
             /\ HasFlag(c.command.opts, "-m")
                => HasOption(c.command.opts, "-m", Profile(n))
             /\ HasFlag(c.command.opts, "-f") <=> c.force
             /\ c.command.disks = raid_array.disks
             /\ (pc = "true") <=> c.ok

C24_Witness ==
    /\ pc = "false"
    /\ raid_array.raid_type = <<"int", 10>>
    /\ Len(raid_array.disks) = 4
    /\ raidCalls[1].force
    /\ ~raidCalls[1].ok
    /\ HasOption(raidCalls[1].command.opts, "-m", "raid10")
    /\ HasFlag(raidCalls[1].command.opts, "-f")

\* ------------------------------------------------------------ claim C25

\* the configured minimum root size, in bytes
Floor == BTimesMillion(BigOf(MinRootSize))

\* mem + sqrt(mem / 1073741824) * 1073741824 for mem = g GiB, g = r * r
SwapBytes(g) ==
    LET r == CHOOSE x \in 0..g : x * x = g
    IN BAdd(BMulSmall(BigOf(1073741824), g), BMulSmall(BigOf(1073741824), r))

\* C25: get_min_root_size returns the floor when swap is false; when swap is
\* true it returns the floor plus mem + sqrt(mem / 2^30) * 2^30 for the RAM
\* size mem given or read; the result is never below the floor and no
\* smaller RAM size gives a larger result.
C25_MinRootSize ==
    (pc = "done")
    => LET a == Head(plan)
       IN /\ ~a.swap => size = Floor
          /\ a.swap => size = BAdd(Floor, SwapBytes(session.mem))
          /\ BLe(Floor, size)
          /\ a.swap
             => \A h \in MemSizes :
                   h <= session.mem
                   => BLe(get_min_root_size(TRUE, h), size)

C25_Witness ==
    /\ pc = "done"
    /\ Head(plan).swap
    /\ Head(plan).ram_size = 0
    /\ session.mem = 16
    /\ size = BAdd(Floor, BMulSmall(BigOf(1073741824), 20))

\* ------------------------------------------------------------ claim C26

\* EFI before ROOT before HOME
Rank(role) == CASE role = "EFI" -> 1 [] role = "ROOT" -> 2 [] role = "HOME" -> 3

\* the requests that add a partition
Adds == {i \in DOMAIN log : log[i].op = "add"}

\* the add at i is followed by the commit and the format of its partition
AddCommitFormat(i) ==
    /\ i + 2 <= Len(log)
    /\ log[i + 1].op = "commit"
    /\ log[i + 1].path = log[i].path
    /\ log[i + 2].op \in Formats
    /\ log[i + 2].path = log[i].path

\* the boot flag set at k comes after root was added and committed and
\* before any home partition is added
BootBetweenRootAndHome(k) ==
    /\ \E i \in Adds : log[i].role = "ROOT" /\ i + 1 < k
    /\ \A j \in Adds : log[j].role = "HOME" => k < j

\* C26: in the log of a run every add-partition is followed at once by the
\* commit and the format of that same partition; partitions are added in
\* the order EFI, ROOT, HOME, each at most once; without UEFI a run that
\* returns has set the boot flag, and the flag is set after root is
\* committed and before a home partition is added; no clobber follows an
\* add.
C26_CreationOrder ==
    /\ \A i \in Adds : AddCommitFormat(i)
    /\ \A i, j \in Adds : i < j => Rank(log[i].role) < Rank(log[j].role)
    /\ \A k \in DOMAIN log :
          log[k].op = "setFlag" => ~efi /\ BootBetweenRootAndHome(k)
    /\ (~efi /\ pc = "returned" /\ HasPart("ROOT")) => Logged("setFlag")
    /\ \A i \in Adds, c \in DOMAIN log : log[c].op = "clobber" => c < i

C26_Witness ==
    /\ pc = "returned"
    /\ ~efi
    /\ Logged("clobber")
    /\ HasPart("ROOT")
    /\ HasPart("HOME")
    /\ \E k \in DOMAIN log :
          log[k].op = "setFlag" /\ BootBetweenRootAndHome(k)

====
